---- MODULE Spec2Model ----
(***************************************************************************)
(* A model of diffrant_native's backend: the NXS/HDF5 reader               *)
(* (readers/mod.rs, readers/nxs.rs), the active-file slot (lib.rs), the    *)
(* open_file command (commands.rs) and the embedded HTTP server's two      *)
(* handlers (server.rs).                                                   *)
(*                                                                         *)
(* Three specifications share the module:                                  *)
(*   Spec / FairSpec  the server: tasks calling open_file, GET /metadata   *)
(*                    and GET /image/{frame} against the shared slot;      *)
(*   SpecFrame        frame_count and read_frame applied to one file;      *)
(*   SpecMeta         metadata applied to one file.                        *)
(***************************************************************************)
EXTENDS Integers, Sequences, FiniteSets, TLC

VARIABLES
    slot,     \* Mutex<Option<Box<dyn Reader>>>: NoReader or the reader's path
    holder,   \* the task holding the mutex, or NoTask
    lockQ,    \* tasks waiting for the mutex, in arrival order
    poolQ,    \* spawn_blocking closures waiting for a blocking thread
    busy,     \* tasks whose closure occupies a blocking thread
    pc,       \* each task's position
    op,       \* each task's current call and its arguments
    res,      \* each task's closure result
    resp,     \* each task's response
    held,     \* what the slot held when the task acquired the mutex
    used,     \* the reader the task's closure read from
    file,     \* SpecFrame, SpecMeta: the file under test
    arg,      \* SpecFrame: the frame index
    out,      \* SpecFrame, SpecMeta: the result of the call
    stage     \* SpecFrame, SpecMeta: position

serverVars == <<slot, holder, lockQ, poolQ, busy, pc, op, res, resp, held, used>>
unitVars == <<file, arg, out, stage>>
vars == <<slot, holder, lockQ, poolQ, busy, pc, op, res, resp, held, used, file, arg, out, stage>>

(***************************************************************************)
(* Bounds of the model.                                                    *)
(***************************************************************************)
MaxFrames == 2
MaxDim == 2
NTasks == 2
PoolSize == 1

(***************************************************************************)
(* Strings that the code inspects are sequences of one-character strings,  *)
(* so that to_lowercase is computed and not assumed.                       *)
(***************************************************************************)
to_lowercase_char(c) ==
    CASE c = "A" -> "a" [] c = "C" -> "c" [] c = "D" -> "d" [] c = "F" -> "f"
      [] c = "H" -> "h" [] c = "K" -> "k" [] c = "M" -> "m" [] c = "N" -> "n"
      [] c = "S" -> "s" [] c = "T" -> "t" [] c = "X" -> "x" [] c = "G" -> "g"
      [] c = "R" -> "r" [] c = "O" -> "o" [] c = "A_ring" -> "a_ring"
      [] OTHER -> c

to_lowercase(s) == [i \in DOMAIN s |-> to_lowercase_char(s[i])]

(***************************************************************************)
(* f64 values.  A finite value is (n / d) * 10^e * hc^h with d > 0 and     *)
(* hc = 12.398419843 (nxs.rs:230); the other kinds are the IEEE specials.  *)
(* Rounding is not modelled.                                               *)
(***************************************************************************)
RECURSIVE Gcd(_, _)
Gcd(a, b) == IF b = 0 THEN a ELSE Gcd(b, a % b)

Abs(n) == IF n < 0 THEN -n ELSE n

\* the normal form: n / d in lowest terms, the powers of ten in e
RECURSIVE Fin(_, _, _, _)
Fin(n, d, e, h) ==
    IF n = 0 THEN [k |-> "fin", n |-> 0, d |-> 1, e |-> 0, h |-> 0]
    ELSE IF n % 10 = 0 THEN Fin(n \div 10, d, e + 1, h)
    ELSE IF d % 10 = 0 THEN Fin(n, d \div 10, e - 1, h)
    ELSE LET g == Gcd(Abs(n), d)
         IN [k |-> "fin", n |-> n \div g, d |-> d \div g, e |-> e, h |-> h]

F(n) == Fin(n, 1, 0, 0)
NaN == [k |-> "nan", n |-> 0, d |-> 1, e |-> 0, h |-> 0]
PInf == [k |-> "pinf", n |-> 0, d |-> 1, e |-> 0, h |-> 0]
NInf == [k |-> "ninf", n |-> 0, d |-> 1, e |-> 0, h |-> 0]

\* x * 10^p and x / 10^p (p > 0): the specials are kept
FMulPow10(x, p) == IF x.k = "fin" THEN Fin(x.n, x.d, x.e + p, x.h) ELSE x

\* x / m for an integer m > 0
FDivInt(x, m) == IF x.k = "fin" THEN Fin(x.n, x.d * m, x.e, x.h) ELSE x

FPositiveFinite(x) == x.k = "fin" /\ x.n > 0

(***************************************************************************)
(* The content of an HDF5 file, as far as the reader looks at it.          *)
(*   ext         the path's extension (readers/mod.rs:49-53)               *)
(*   openable    whether hdf5::File::open succeeds                         *)
(*   hasData     whether the dataset entry/data/data exists                *)
(*   shape       its shape; dtype: its element type; seed: its content     *)
(*   detector    the group entry/instrument/detector                       *)
(*   detectorSpecific   its subgroup; beam: entry/instrument/beam          *)
(* A dataset of a group has a form (scalar f64, scalar f32, one-           *)
(* dimensional f64/f32 array of len elements, anything else), the value of *)
(* its first element and a units attribute.                                *)
(***************************************************************************)
NoAttr == [enc |-> "absent", s |-> <<>>]
Attr(enc, s) == [enc |-> enc, s |-> s]

Absent == [form |-> "absent", val |-> F(0), len |-> 0, units |-> NoAttr]
Dataset(form, val, len, units) == [form |-> form, val |-> val, len |-> len, units |-> units]

NoGroup == [present |-> FALSE, ds |-> <<>>]
Group(ds) == [present |-> TRUE, ds |-> ds]

\* hdf5::Group::dataset(name): the dataset, or Absent for an Err
dataset(group, name) ==
    IF group.present /\ name \in DOMAIN group.ds THEN group.ds[name] ELSE Absent

BaseFile ==
    [ext |-> <<"n", "x", "s">>, openable |-> TRUE, hasData |-> TRUE,
     shape |-> <<1, 1, 1>>, dtype |-> "u16", seed |-> 0,
     detector |-> Group(<<>>), detectorSpecific |-> NoGroup, beam |-> NoGroup]

(***************************************************************************)
(* Pixels.  A stored word is its bit pattern read as an unsigned number,   *)
(* top * 2^31 + low, with top the highest bit of a 32-bit word; the        *)
(* checker's integers stop at 2^31 - 1, so a u32 is kept as this pair.     *)
(***************************************************************************)
Word(top, low) == [top |-> top, low |-> low]

Palette ==
    << Word(0, 0), Word(0, 1), Word(0, 32767), Word(0, 32768), Word(0, 65535),
       Word(0, 65536), Word(0, 131071), Word(0, 2147483647), Word(1, 0),
       Word(1, 2147483647), Word(1, 2147450880), Word(1, 2147450879) >>

Is16Bit(dtype) == dtype \in {"u16", "i16"}

\* the stored word at flat position k (0-based) of the dataset
StoredWord(f, k) ==
    LET w == Palette[((f.seed + k) % Len(Palette)) + 1]
    IN IF Is16Bit(f.dtype) THEN Word(0, w.low % 65536) ELSE w

\* the value a read of element type T gives for a stored word
read_u16(w) == w.low
read_i16(w) == IF w.low >= 32768 THEN w.low - 65536 ELSE w.low
read_i32(w) == IF w.top = 1 THEN (w.low - 2147483647) - 1 ELSE w.low
read_u32(w) == w

\* Rust's `as` between integer types: same width reinterprets, narrowing truncates
u32_as_i32(w) == IF w.top = 1 THEN (w.low - 2147483647) - 1 ELSE w.low
i32_as_i16_saturating(v) == IF v > 32767 THEN 32767 ELSE IF v < -32768 THEN -32768 ELSE v
i32_as_i16(v) == LET m == v % 65536 IN IF m >= 32768 THEN m - 65536 ELSE m
i16_as_u16(v) == v % 65536

\* nxs.rs:82-96, one element
convert_pixel(dtype, w) ==
    CASE dtype = "u16" -> read_u16(w)
      [] dtype = "i32" -> i16_as_u16(i32_as_i16(read_i32(w)))
      [] dtype = "u32" -> i16_as_u16(i32_as_i16(u32_as_i32(read_u32(w))))
      [] dtype = "i16" -> i16_as_u16(read_i16(w))

SupportedDtypes == {"u16", "i32", "u32", "i16"}
Dtypes == SupportedDtypes \cup {"u8", "f32"}

Ok(v) == [tag |-> "ok", v |-> v, err |-> "", msg |-> <<>>]
Err(e) == [tag |-> "err", v |-> <<>>, err |-> e, msg |-> <<>>]
Panic == [tag |-> "panic", v |-> <<>>, err |-> "panic", msg |-> <<>>]

\* NxsReader::frame_count
frame_count(f) ==
    IF ~f.openable THEN Err("open")
    ELSE IF ~f.hasData THEN Err("dataset")
    ELSE IF Len(f.shape) # 3 THEN Err("rank")
    ELSE Ok(f.shape[1])

read_nxs_frame_off_by_one(f, frame_idx) ==
    IF ~f.openable THEN Err("open")
    ELSE IF ~f.hasData THEN Err("dataset")
    ELSE IF Len(f.shape) # 3 THEN Err("rank")
    ELSE IF frame_idx > f.shape[1] THEN Err("range")
    ELSE IF f.dtype \notin SupportedDtypes THEN Err("dtype")
    ELSE LET height == f.shape[2]
             width == f.shape[3]
         IN Ok([pixels |-> [k \in 1..(height * width) |->
                              convert_pixel(f.dtype, StoredWord(f, frame_idx * height * width + (k - 1)))],
                width |-> width, height |-> height])

\* read_nxs_frame (NxsReader::read_frame)
read_nxs_frame(f, frame_idx) ==
    IF ~f.openable THEN Err("open")
    ELSE IF ~f.hasData THEN Err("dataset")
    ELSE IF Len(f.shape) # 3 THEN Err("rank")
    ELSE IF frame_idx >= f.shape[1] THEN Err("range")
    ELSE IF f.dtype \notin SupportedDtypes THEN Err("dtype")
    ELSE LET height == f.shape[2]
             width == f.shape[3]
         IN Ok([pixels |-> [k \in 1..(height * width) |->
                              convert_pixel(f.dtype, StoredWord(f, frame_idx * height * width + (k - 1)))],
                width |-> width, height |-> height])

(***************************************************************************)
(* Metadata (read_nxs_metadata and its helpers).                           *)
(***************************************************************************)
Some(v) == [tag |-> "some", v |-> v]
None == [tag |-> "none", v |-> F(0)]
Unwind == [tag |-> "panic", v |-> F(0)]

\* Container::read_scalar::<f64 | f32>: Ok only for a dataset of rank 0
read_scalar_ok(ds) == ds.form \in {"f64", "f32"}
\* Container::read_1d::<f64 | f32>: Ok only for a dataset of rank 1
read_1d_ok(ds) == ds.form \in {"arr64", "arr32"}

read_scalar_f64_with_1d(group, name) ==
    LET ds == dataset(group, name)
    IN IF ds.form = "absent" THEN None
       ELSE IF read_scalar_ok(ds) THEN Some(ds.val)
       ELSE IF read_1d_ok(ds) /\ ds.len > 0 THEN Some(ds.val)
       ELSE None

\* read_scalar_f64
read_scalar_f64(group, name) ==
    LET ds == dataset(group, name)
    IN IF ds.form = "absent" THEN None
       ELSE IF read_scalar_ok(ds) THEN Some(ds.val)
       ELSE None

\* read_dataset_attr_string: VarLenUnicode, VarLenAscii, FixedAscii<64> in turn
read_dataset_attr_string(ds) ==
    IF ds.units.enc \in {"vlu", "vla", "fixed"}
    THEN [tag |-> "some", s |-> ds.units.s]
    ELSE [tag |-> "none", s |-> <<>>]

Unit_mm == <<"m", "m">>
Unit_cm == <<"c", "m">>
Unit_m == <<"m">>
Unit_nm == <<"n", "m">>
Unit_a == <<"a">>
Unit_angstrom == <<"a", "n", "g", "s", "t", "r", "o", "m">>
Unit_angstroms == <<"a", "n", "g", "s", "t", "r", "o", "m", "s">>
Unit_A_ring == <<"A_ring">>

\* nxs.rs:141-146
distance_to_mm_case_sensitive(ds, raw) ==
    LET a == read_dataset_attr_string(ds)
        units == IF a.tag = "some" THEN a.s ELSE Unit_m
    IN IF units = Unit_mm THEN raw
       ELSE IF units = Unit_cm THEN FMulPow10(raw, 1)
       ELSE FMulPow10(raw, 3)

distance_to_mm(ds, raw) ==
    LET a == read_dataset_attr_string(ds)
        units == IF a.tag = "some" THEN a.s ELSE Unit_m
        lower == to_lowercase(units)
    IN IF lower = Unit_mm THEN raw
       ELSE IF lower = Unit_cm THEN FMulPow10(raw, 1)
       ELSE FMulPow10(raw, 3)

\* the find_map closure of nxs.rs:132-148 for one candidate name
distance_candidate(detector, name) ==
    LET ds == dataset(detector, name)
    IN IF ds.form = "absent" THEN None
       ELSE IF read_scalar_ok(ds) THEN Some(distance_to_mm(ds, ds.val))
       ELSE IF read_1d_ok(ds)
            THEN (IF ds.len > 0 THEN Some(distance_to_mm(ds, ds.val)) ELSE Unwind)
       ELSE None

\* nxs.rs:130-149
panel_distance_of(detector) ==
    LET c1 == distance_candidate(detector, "distance")
    IN IF c1.tag # "none" THEN c1
       ELSE LET c2 == distance_candidate(detector, "detector_distance")
            IN IF c2.tag # "none" THEN c2 ELSE Some(F(0))

\* E (keV) = hc / wavelength
wavelength_to_energy_kev(x) ==
    CASE x.k = "nan" -> NaN
      [] x.k \in {"pinf", "ninf"} -> F(0)
      [] x.k = "fin" /\ x.n = 0 -> PInf
      [] x.k = "fin" /\ x.n > 0 -> Fin(x.d, x.n, 0 - x.e, 1 - x.h)
      [] x.k = "fin" /\ x.n < 0 -> Fin(0 - x.d, 0 - x.n, 0 - x.e, 1 - x.h)

wavelength_to_angstrom(ds, raw) ==
    LET a == read_dataset_attr_string(ds)
        units == IF a.tag = "some" THEN a.s ELSE Unit_angstrom
        lower == to_lowercase(units)
    IN IF lower \in {Unit_angstrom, Unit_angstroms, Unit_a, Unit_A_ring} THEN raw
       ELSE IF lower = Unit_nm THEN FMulPow10(raw, 1)
       ELSE IF lower = Unit_m THEN FMulPow10(raw, 10)
       ELSE raw

\* nxs.rs:161-179
beam_energy_kev_of(f) ==
    IF ~f.beam.present THEN None
    ELSE LET ev == read_scalar_f64(f.beam, "incident_energy")
         IN IF ev.tag = "some" THEN Some(FMulPow10(ev.v, 0 - 3))
            ELSE LET ds == dataset(f.beam, "incident_wavelength")
                 IN IF ds.form = "absent" THEN None
                    ELSE IF read_scalar_ok(ds)
                         THEN Some(wavelength_to_energy_kev(wavelength_to_angstrom(ds, ds.val)))
                    ELSE None

U16_MAX == 65535

\* nxs.rs:182-187
trusted_range_max_of(f) ==
    LET cutoff == IF f.detectorSpecific.present
                  THEN read_scalar_f64(f.detectorSpecific, "countrate_correction_count_cutoff")
                  ELSE None
        sat == read_scalar_f64(f.detector, "saturation_value")
    IN IF cutoff.tag = "some" THEN cutoff.v
       ELSE IF sat.tag = "some" THEN sat.v
       ELSE F(U16_MAX - 1)

unwrap_or(opt, default) == IF opt.tag = "some" THEN opt.v ELSE default

read_nxs_metadata_detector_optional(f) ==
    IF ~f.openable THEN Err("open")
    ELSE IF ~f.hasData THEN Err("dataset")
    ELSE IF Len(f.shape) # 3 THEN Err("rank")
    ELSE LET width == f.shape[3]
             height == f.shape[2]
             distance == panel_distance_of(f.detector)
         IN IF distance.tag = "panic" THEN Panic
            ELSE Ok([panel_distance |-> distance.v,
                     beam_center |-> << unwrap_or(read_scalar_f64(f.detector, "beam_center_x"), FDivInt(F(width), 2)),
                                        unwrap_or(read_scalar_f64(f.detector, "beam_center_y"), FDivInt(F(height), 2)) >>,
                     pixel_size |-> IF read_scalar_f64(f.detector, "x_pixel_size").tag = "some"
                                    THEN FMulPow10(read_scalar_f64(f.detector, "x_pixel_size").v, 3)
                                    ELSE Fin(75, 1, 0 - 3, 0),
                     panel_size_fast_slow |-> <<width, height>>,
                     image_depth |-> 16,
                     trusted_range_max |-> trusted_range_max_of(f),
                     beam_energy_kev |-> beam_energy_kev_of(f)])

\* read_nxs_metadata (NxsReader::metadata)
read_nxs_metadata(f) ==
    IF ~f.openable THEN Err("open")
    ELSE IF ~f.hasData THEN Err("dataset")
    ELSE IF Len(f.shape) # 3 THEN Err("rank")
    ELSE IF ~f.detector.present THEN Err("detector")
    ELSE LET width == f.shape[3]
             height == f.shape[2]
             distance == panel_distance_of(f.detector)
         IN IF distance.tag = "panic" THEN Panic
            ELSE Ok([panel_distance |-> distance.v,
                     beam_center |-> << unwrap_or(read_scalar_f64(f.detector, "beam_center_x"), FDivInt(F(width), 2)),
                                        unwrap_or(read_scalar_f64(f.detector, "beam_center_y"), FDivInt(F(height), 2)) >>,
                     pixel_size |-> IF read_scalar_f64(f.detector, "x_pixel_size").tag = "some"
                                    THEN FMulPow10(read_scalar_f64(f.detector, "x_pixel_size").v, 3)
                                    ELSE Fin(75, 1, 0 - 3, 0),
                     panel_size_fast_slow |-> <<width, height>>,
                     image_depth |-> 16,
                     trusted_range_max |-> trusted_range_max_of(f),
                     beam_energy_kev |-> beam_energy_kev_of(f)])

(***************************************************************************)
(* SpecFrame: frame_count() and then read_frame(arg) on one file.          *)
(***************************************************************************)
NoOut == [tag |-> "none"]

Shapes ==
    { <<n, h>> : n \in 0..MaxFrames, h \in 1..MaxDim }
    \cup { <<n, h, w>> : n \in 0..MaxFrames, h \in 1..MaxDim, w \in 1..MaxDim }
    \cup { <<n, h, w, 1>> : n \in 0..MaxFrames, h \in 1..MaxDim, w \in 1..MaxDim }

FrameFiles ==
    { [BaseFile EXCEPT !.shape = sh, !.dtype = dt, !.seed = sd] :
        sh \in Shapes, dt \in Dtypes, sd \in 0..(Len(Palette) - 1) }
    \cup { [BaseFile EXCEPT !.openable = FALSE], [BaseFile EXCEPT !.hasData = FALSE] }

ServerIdle ==
    /\ slot = "none"
    /\ holder = 0
    /\ lockQ = <<>>
    /\ poolQ = <<>>
    /\ busy = {}
    /\ pc = <<>>
    /\ op = <<>>
    /\ res = <<>>
    /\ resp = <<>>
    /\ held = <<>>
    /\ used = <<>>

InitFrame ==
    /\ ServerIdle
    /\ file \in FrameFiles
    /\ arg \in 0..(MaxFrames + 1)
    /\ out = NoOut
    /\ stage = "start"

CallFrameCount ==
    /\ stage = "start"
    /\ out' = [tag |-> "count", count |-> frame_count(file)]
    /\ stage' = "counted"
    /\ UNCHANGED <<file, arg>>
    /\ UNCHANGED serverVars

CallReadFrame ==
    /\ stage = "counted"
    /\ out' = [tag |-> "frame", count |-> out.count, frame |-> read_nxs_frame(file, arg)]
    /\ stage' = "read"
    /\ UNCHANGED <<file, arg>>
    /\ UNCHANGED serverVars

NextFrame == CallFrameCount \/ CallReadFrame

SpecFrame == InitFrame /\ [][NextFrame]_vars

(***************************************************************************)
(* SpecMeta: metadata() on one file.  The fields are resolved              *)
(* independently of one another, so the files vary one group of fields at  *)
(* a time around BaseFile.                                                 *)
(***************************************************************************)
Values == {F(0 - 1), F(0), F(1), F(2), NaN, PInf}

DistanceUnits ==
    {NoAttr, Attr("vlu", Unit_mm), Attr("vla", Unit_cm), Attr("fixed", Unit_m),
     Attr("vlu", <<"M", "M">>), Attr("vla", <<"C", "m">>), Attr("vlu", <<"k", "m">>),
     Attr("other", Unit_mm)}

WavelengthUnits ==
    {NoAttr, Attr("vlu", Unit_angstrom), Attr("vla", Unit_nm), Attr("fixed", Unit_m),
     Attr("vlu", <<"N", "M">>), Attr("vlu", Unit_A_ring), Attr("vlu", <<"A">>),
     Attr("other", Unit_nm), Attr("vlu", <<"k", "m">>)}

Forms == {"f64", "f32", "arr64", "arr32", "other"}

DistanceDatasets ==
    {Absent} \cup
    { Dataset(fm, v, n, u) : fm \in Forms, v \in {F(1), F(2)}, n \in 0..2, u \in DistanceUnits }

SecondDistanceDatasets ==
    {Absent, Dataset("f64", F(1), 0, Attr("vlu", Unit_cm)), Dataset("arr32", F(2), 1, NoAttr),
     Dataset("arr64", F(2), 0, NoAttr), Dataset("other", F(2), 0, NoAttr)}

PlainDatasets ==
    {Absent, Dataset("f64", F(2), 0, NoAttr), Dataset("f32", F(1), 0, NoAttr),
     Dataset("arr64", F(2), 1, NoAttr), Dataset("other", F(2), 0, NoAttr)}

EnergyDatasets ==
    {Absent} \cup { Dataset(fm, v, 1, NoAttr) : fm \in Forms, v \in Values }

WavelengthDatasets ==
    {Absent} \cup
    { Dataset(fm, v, 1, u) : fm \in {"f64", "f32", "arr64", "other"}, v \in Values, u \in WavelengthUnits }

MetaShapes == { <<n, h, w>> : n \in {1}, h \in 1..MaxDim, w \in 1..MaxDim }

DistanceFiles ==
    { [BaseFile EXCEPT !.detector = Group(("distance" :> d1) @@ ("detector_distance" :> d2))] :
        d1 \in DistanceDatasets, d2 \in SecondDistanceDatasets }

GeometryFiles ==
    { [BaseFile EXCEPT !.shape = sh,
                       !.detector = Group(("x_pixel_size" :> px) @@ ("beam_center_x" :> bx)
                                          @@ ("beam_center_y" :> by))] :
        sh \in MetaShapes, px \in PlainDatasets, bx \in PlainDatasets, by \in PlainDatasets }

BeamFiles ==
    { [BaseFile EXCEPT !.beam = Group(("incident_energy" :> en) @@ ("incident_wavelength" :> wl))] :
        en \in EnergyDatasets, wl \in WavelengthDatasets }

TrustedFiles ==
    { [BaseFile EXCEPT !.detector = Group("saturation_value" :> sat),
                       !.detectorSpecific = g] :
        sat \in PlainDatasets,
        g \in {NoGroup} \cup { Group("countrate_correction_count_cutoff" :> c) : c \in PlainDatasets } }

StructuralFiles ==
    { BaseFile,
      [BaseFile EXCEPT !.openable = FALSE],
      [BaseFile EXCEPT !.hasData = FALSE],
      [BaseFile EXCEPT !.shape = <<1, 1>>],
      [BaseFile EXCEPT !.shape = <<1, 1, 1, 1>>],
      [BaseFile EXCEPT !.detector = NoGroup],
      [BaseFile EXCEPT !.detector = NoGroup,
                       !.beam = Group("incident_energy" :> Dataset("f64", F(2), 0, NoAttr))] }

MetaFiles == DistanceFiles \cup GeometryFiles \cup BeamFiles \cup TrustedFiles \cup StructuralFiles

InitMeta ==
    /\ ServerIdle
    /\ file \in MetaFiles
    /\ arg = 0
    /\ out = NoOut
    /\ stage = "start"

CallMetadata ==
    /\ stage = "start"
    /\ out' = read_nxs_metadata(file)
    /\ stage' = "done"
    /\ UNCHANGED <<file, arg>>
    /\ UNCHANGED serverVars

NextMeta == CallMetadata

SpecMeta == InitMeta /\ [][NextMeta]_vars

(***************************************************************************)
(* Claims about read_frame (SpecFrame).                                    *)
(***************************************************************************)
FramePrecondition ==
    /\ stage = "read"
    /\ file.openable /\ file.hasData /\ Len(file.shape) = 3
    /\ file.dtype \in SupportedDtypes
    /\ out.count.tag = "ok"

\* C4: for a rank-3 image stack of a supported pixel type with N = frame_count(),
\* read_frame(i) fails with the out-of-range error for every i >= N and succeeds
\* for every i < N with exactly width * height pixels and the dataset's width
\* and height.
C4_ReadFrameRange ==
    FramePrecondition =>
        LET N == out.count.v
        IN /\ arg >= N => out.frame.tag = "err" /\ out.frame.err = "range"
           /\ arg < N =>
                /\ out.frame.tag = "ok"
                /\ Len(out.frame.v.pixels) = file.shape[3] * file.shape[2]
                /\ out.frame.v.width = file.shape[3]
                /\ out.frame.v.height = file.shape[2]

C4_Witness ==
    /\ FramePrecondition
    /\ out.count.v = MaxFrames
    /\ arg = MaxFrames
    /\ out.frame.err = "range"

\* v mod 2^16 for the numeric value v the element type gives the stored word;
\* 2^31 is a multiple of 2^16, so the top bit of a u32 adds nothing
ValueMod65536(dtype, w) ==
    CASE dtype = "u16" -> read_u16(w) % 65536
      [] dtype = "i16" -> read_i16(w) % 65536
      [] dtype = "i32" -> read_i32(w) % 65536
      [] dtype = "u32" -> ((w.top * 0) + (w.low % 65536)) % 65536

\* C5: every decoded pixel is the source value modulo 2^16, by truncation and
\* never by saturation: int32 0x1FFFF gives 0xFFFF, int16 -1 gives 65535, a
\* uint16 is unchanged.
C5_PixelNarrowing ==
    (stage = "read" /\ out.frame.tag = "ok") =>
        LET n == file.shape[2] * file.shape[3]
        IN /\ \A k \in 1..n :
                LET w == StoredWord(file, arg * n + (k - 1))
                IN /\ out.frame.v.pixels[k] = ValueMod65536(file.dtype, w)
                   /\ out.frame.v.pixels[k] \in 0..65535
                   /\ file.dtype = "u16" => out.frame.v.pixels[k] = w.low
                   /\ (file.dtype = "i32" /\ w = Word(0, 131071)) => out.frame.v.pixels[k] = 65535
                   /\ (file.dtype = "i16" /\ read_i16(w) = 0 - 1) => out.frame.v.pixels[k] = 65535

C5_Witness ==
    /\ stage = "read"
    /\ out.frame.tag = "ok"
    /\ file.dtype = "i32"
    /\ StoredWord(file, arg * file.shape[2] * file.shape[3]) = Word(0, 131071)
    /\ out.frame.v.pixels[1] = 65535

(***************************************************************************)
(* Claims about metadata (SpecMeta).                                       *)
(***************************************************************************)
MetaOk == stage = "done" /\ out.tag = "ok"

Structural == ~file.openable \/ ~file.hasData \/ Len(file.shape) # 3

\* the fields' documented defaults, taken when the item is absent
DefaultsTaken ==
    /\ (dataset(file.detector, "distance") = Absent /\ dataset(file.detector, "detector_distance") = Absent)
            => out.v.panel_distance = F(0)
    /\ dataset(file.detector, "x_pixel_size") = Absent => out.v.pixel_size = FMulPow10(F(75), 0 - 3)
    /\ dataset(file.detector, "beam_center_x") = Absent
            => out.v.beam_center[1] = Fin(file.shape[3], 2, 0, 0)
    /\ dataset(file.detector, "beam_center_y") = Absent
            => out.v.beam_center[2] = Fin(file.shape[2], 2, 0, 0)
    /\ ~file.beam.present => out.v.beam_energy_kev = None
    /\ (dataset(file.beam, "incident_energy") = Absent /\ dataset(file.beam, "incident_wavelength") = Absent)
            => out.v.beam_energy_kev = None
    /\ ((~file.detectorSpecific.present
          \/ dataset(file.detectorSpecific, "countrate_correction_count_cutoff") = Absent)
        /\ dataset(file.detector, "saturation_value") = Absent)
            => out.v.trusted_range_max = F(65534)

\* C6 as claimed: metadata() returns an error only when the file cannot be
\* opened, the image dataset is missing or its rank is not 3; a missing detector
\* group is no error.
C6_Original ==
    (stage = "done" /\ out.tag = "err") => Structural

\* C6 as amended: metadata() returns an error exactly when the file cannot be
\* opened, the image dataset is missing, its rank is not 3, or the detector
\* group is missing; a missing field dataset, beam group or detectorSpecific
\* subgroup never does, and each affected field takes its default (beam energy
\* is omitted).
C6_MetadataErrors ==
    /\ (stage = "done" /\ out.tag = "err") => (Structural \/ ~file.detector.present)
    /\ (stage = "done" /\ (Structural \/ ~file.detector.present)) => out.tag = "err"
    /\ MetaOk => DefaultsTaken

C6_Witness ==
    /\ MetaOk
    /\ file.detector = Group(<<>>)
    /\ ~file.beam.present /\ ~file.detectorSpecific.present
    /\ out.v.panel_distance = F(0)
    /\ out.v.beam_energy_kev = None

\* C7: in every ImageMetadata returned, beam_energy_kev is absent or a positive
\* finite number, whatever incident_energy or incident_wavelength hold.
C7_BeamEnergyPositive ==
    MetaOk => (out.v.beam_energy_kev = None \/ FPositiveFinite(out.v.beam_energy_kev.v))

\* the first candidate of each field, stored as a one-element array
OneElement(ds) == ds.form \in {"arr64", "arr32"} /\ ds.len = 1

\* C8 as claimed: every field's dataset that is a one-element array yields its
\* stored value (converted to the field's unit), not the next candidate or the
\* default.
C8_Original ==
    MetaOk =>
        /\ OneElement(dataset(file.detector, "distance"))
            => out.v.panel_distance = distance_to_mm(dataset(file.detector, "distance"),
                                                     dataset(file.detector, "distance").val)
        /\ OneElement(dataset(file.detector, "x_pixel_size"))
            => out.v.pixel_size = FMulPow10(dataset(file.detector, "x_pixel_size").val, 3)
        /\ OneElement(dataset(file.detector, "beam_center_x"))
            => out.v.beam_center[1] = dataset(file.detector, "beam_center_x").val
        /\ OneElement(dataset(file.detector, "beam_center_y"))
            => out.v.beam_center[2] = dataset(file.detector, "beam_center_y").val
        /\ (file.beam.present /\ OneElement(dataset(file.beam, "incident_energy")))
            => out.v.beam_energy_kev = Some(FMulPow10(dataset(file.beam, "incident_energy").val, 0 - 3))
        /\ (file.detectorSpecific.present
            /\ OneElement(dataset(file.detectorSpecific, "countrate_correction_count_cutoff")))
            => out.v.trusted_range_max = dataset(file.detectorSpecific, "countrate_correction_count_cutoff").val

Scalar(ds) == ds.form \in {"f64", "f32"}

\* the beam energy when incident_energy yields nothing: from a scalar wavelength, or omitted
EnergyFromWavelength ==
    LET wl == dataset(file.beam, "incident_wavelength")
    IN IF Scalar(wl) THEN out.v.beam_energy_kev.tag = "some" ELSE out.v.beam_energy_kev = None

\* the trusted range maximum when the cut-off yields nothing
TrustedFromSaturation ==
    LET sat == dataset(file.detector, "saturation_value")
    IN out.v.trusted_range_max = IF Scalar(sat) THEN sat.val ELSE F(65534)

\* C8 as amended: only the distance candidates are read as scalar float64, else
\* scalar float32, else the first element of a one-dimensional array; every
\* other field is read as a scalar only, so a one-element array there yields the
\* next candidate or the default, and a scalar yields its stored value.
C8_ScalarAndArrayReads ==
    MetaOk =>
        /\ OneElement(dataset(file.detector, "distance"))
            => out.v.panel_distance = distance_to_mm(dataset(file.detector, "distance"),
                                                     dataset(file.detector, "distance").val)
        /\ Scalar(dataset(file.detector, "distance"))
            => out.v.panel_distance = distance_to_mm(dataset(file.detector, "distance"),
                                                     dataset(file.detector, "distance").val)
        /\ OneElement(dataset(file.detector, "x_pixel_size")) => out.v.pixel_size = FMulPow10(F(75), 0 - 3)
        /\ Scalar(dataset(file.detector, "x_pixel_size"))
            => out.v.pixel_size = FMulPow10(dataset(file.detector, "x_pixel_size").val, 3)
        /\ OneElement(dataset(file.detector, "beam_center_x"))
            => out.v.beam_center[1] = Fin(file.shape[3], 2, 0, 0)
        /\ Scalar(dataset(file.detector, "beam_center_x"))
            => out.v.beam_center[1] = dataset(file.detector, "beam_center_x").val
        /\ OneElement(dataset(file.detector, "beam_center_y"))
            => out.v.beam_center[2] = Fin(file.shape[2], 2, 0, 0)
        /\ Scalar(dataset(file.detector, "beam_center_y"))
            => out.v.beam_center[2] = dataset(file.detector, "beam_center_y").val
        /\ (file.beam.present /\ OneElement(dataset(file.beam, "incident_energy")))
            => EnergyFromWavelength
        /\ (file.beam.present /\ Scalar(dataset(file.beam, "incident_energy")))
            => out.v.beam_energy_kev = Some(FMulPow10(dataset(file.beam, "incident_energy").val, 0 - 3))
        /\ (file.beam.present /\ dataset(file.beam, "incident_energy") = Absent
            /\ OneElement(dataset(file.beam, "incident_wavelength")))
            => out.v.beam_energy_kev = None
        /\ (file.detectorSpecific.present
            /\ OneElement(dataset(file.detectorSpecific, "countrate_correction_count_cutoff")))
            => TrustedFromSaturation
        /\ (file.detectorSpecific.present
            /\ Scalar(dataset(file.detectorSpecific, "countrate_correction_count_cutoff")))
            => out.v.trusted_range_max = dataset(file.detectorSpecific, "countrate_correction_count_cutoff").val
        /\ (~file.detectorSpecific.present /\ OneElement(dataset(file.detector, "saturation_value")))
            => out.v.trusted_range_max = F(65534)

C8_Witness ==
    /\ MetaOk
    /\ OneElement(dataset(file.detector, "x_pixel_size"))
    /\ dataset(file.detector, "x_pixel_size").val = F(2)
    /\ out.v.pixel_size = FMulPow10(F(75), 0 - 3)

Readable(ds) == Scalar(ds) \/ (ds.form \in {"arr64", "arr32"} /\ ds.len > 0)

\* the first of distance, detector_distance that can be read
FirstDistance ==
    IF Readable(dataset(file.detector, "distance")) THEN dataset(file.detector, "distance")
    ELSE IF Readable(dataset(file.detector, "detector_distance"))
         THEN dataset(file.detector, "detector_distance")
    ELSE Absent

UnitsString(ds) == ds.units.enc \in {"vlu", "vla", "fixed"}

\* C10 as claimed: the distance is the first readable of distance,
\* detector_distance, times 1 for the units string "mm", times 10 for "cm",
\* times 1000 for "m", any other string and no units; 0.0 when neither exists.
C10_Original ==
    MetaOk =>
        LET ds == FirstDistance
        IN out.v.panel_distance =
              IF ds = Absent THEN F(0)
              ELSE IF UnitsString(ds) /\ ds.units.s = <<"m", "m">> THEN ds.val
              ELSE IF UnitsString(ds) /\ ds.units.s = <<"c", "m">> THEN FMulPow10(ds.val, 1)
              ELSE FMulPow10(ds.val, 3)

\* C10 as amended: the same, with the units string compared without regard to
\* case ("MM" is "mm", "Cm" is "cm").
C10_DistanceUnits ==
    MetaOk =>
        LET ds == FirstDistance
        IN out.v.panel_distance =
              IF ds = Absent THEN F(0)
              ELSE IF UnitsString(ds)
                      /\ ds.units.s \in {<<"m", "m">>, <<"M", "M">>, <<"M", "m">>, <<"m", "M">>}
                   THEN ds.val
              ELSE IF UnitsString(ds)
                      /\ ds.units.s \in {<<"c", "m">>, <<"C", "M">>, <<"C", "m">>, <<"c", "M">>}
                   THEN FMulPow10(ds.val, 1)
              ELSE FMulPow10(ds.val, 3)

C10_Witness ==
    /\ MetaOk
    /\ dataset(file.detector, "distance").form = "f64"
    /\ dataset(file.detector, "distance").val = F(1)
    /\ dataset(file.detector, "distance").units = Attr("vla", <<"c", "m">>)
    /\ out.v.panel_distance = F(10)

(***************************************************************************)
(* The server: open_file (commands.rs) and the two handlers (server.rs)    *)
(* run as tasks that share the slot behind tokio's Mutex.  The mutex       *)
(* grants the lock in the order it was requested (lockQ); spawn_blocking   *)
(* runs a closure on one of PoolSize blocking threads, the others wait in  *)
(* poolQ.  A reader is its path (NxsReader owns only the path); the files  *)
(* on disk are those of FS.                                                *)
(***************************************************************************)
Tasks == 1..NTasks
NoTask == 0
NoReader == "none"

GoodPaths == {"scan.nxs", "bare.H5"}
BadPaths == {"notes.txt", "gone.nxs", "nodata.hdf5", "flat.nx5"}
Paths == GoodPaths \cup BadPaths

FS(path) ==
    CASE path = "scan.nxs" ->
            [BaseFile EXCEPT !.shape = <<2, 1, 2>>, !.dtype = "i32", !.seed = 5,
                             !.detector = Group("distance" :> Dataset("f64", F(2), 0, Attr("vlu", Unit_cm))),
                             !.beam = Group("incident_wavelength" :> Dataset("f64", F(1), 0, NoAttr))]
      [] path = "bare.H5" ->
            [BaseFile EXCEPT !.ext = <<"H", "5">>, !.shape = <<1, 1, 1>>, !.dtype = "i16", !.seed = 4,
                             !.detector = NoGroup]
      [] path = "notes.txt" -> [BaseFile EXCEPT !.ext = <<"t", "x", "t">>]
      [] path = "gone.nxs" -> [BaseFile EXCEPT !.openable = FALSE]
      [] path = "nodata.hdf5" -> [BaseFile EXCEPT !.ext = <<"h", "d", "f", "5">>, !.hasData = FALSE]
      [] path = "flat.nx5" -> [BaseFile EXCEPT !.ext = <<"n", "x", "5">>, !.shape = <<2, 2>>]

SupportedExtensions == { <<"n", "x", "s">>, <<"h", "5">>, <<"h", "d", "f", "5">>, <<"n", "x", "5">> }

\* readers::open, then NxsReader::open
readers_open(path) ==
    IF to_lowercase(FS(path).ext) \notin SupportedExtensions THEN Err("extension")
    ELSE IF ~FS(path).openable THEN Err("open")
    ELSE Ok(path)

\* the closure of open_file (commands.rs:27-31)
open_closure(path) ==
    LET reader == readers_open(path)
    IN IF reader.tag # "ok" THEN reader
       ELSE LET n == frame_count(FS(reader.v))
            IN IF n.tag # "ok" THEN n
               ELSE Ok([reader |-> reader.v, frame_count |-> n.v])

FrameArgs == {0, MaxFrames}

\* the files on disk do not change, so what a reader's calls return is fixed
\* per path: the results are tabulated once
OpenResults == [path \in Paths |-> open_closure(path)]
MetadataResults == [path \in GoodPaths |-> read_nxs_metadata(FS(path))]
FrameResults == [path \in GoodPaths |-> [i \in FrameArgs |-> read_nxs_frame(FS(path), i)]]

\* the closures of get_metadata and get_image, given what guard.as_ref() holds
request_closure(o, reader) ==
    IF reader = NoReader THEN Err("No file open")
    ELSE IF o.kind = "meta" THEN MetadataResults[reader]
    ELSE FrameResults[reader][o.frame]

\* u16::to_le_bytes over the pixels
to_le_bytes(pixels) ==
    [i \in 1..(2 * Len(pixels)) |->
        IF i % 2 = 1 THEN pixels[(i + 1) \div 2] % 256 ELSE pixels[i \div 2] \div 256]

\* the answers of the handlers: Json(meta), (CONTENT_TYPE, bytes), (status, text)
JsonResponse(meta) == [status |-> 200, json |-> meta]
BytesResponse(bytes) == [status |-> 200, content_type |-> "application/octet-stream", bytes |-> bytes]
TextResponse(status, text) == [status |-> status, text |-> text]

\* the answers of open_file: Ok(OpenFileResult { frame_count }) or Err(message)
OpenOk(n) == [result |-> "ok", frame_count |-> n]
OpenErr(e) == [result |-> "err", error |-> e]

\* the match of get_metadata (server.rs:44-51)
metadata_response(result) ==
    CASE result.tag = "ok" -> JsonResponse(result.v)
      [] result.tag = "err" -> TextResponse(500, result.err)
      [] result.tag = "panic" -> TextResponse(404, "No file open")

\* the match of get_image (server.rs:71-88)
image_response(result) ==
    CASE result.tag = "ok" -> BytesResponse(to_le_bytes(result.v.pixels))
      [] result.tag = "err" -> TextResponse(500, result.err)
      [] result.tag = "panic" -> TextResponse(500, "")

NoOp == [kind |-> "idle", path |-> "", frame |-> 0]
NoRes == [tag |-> "none", v |-> <<>>, err |-> "", msg |-> <<>>]
NoResp == [result |-> "none"]

Init ==
    /\ slot = NoReader
    /\ holder = NoTask
    /\ lockQ = <<>>
    /\ poolQ = <<>>
    /\ busy = {}
    /\ pc = [c \in Tasks |-> "idle"]
    /\ op = [c \in Tasks |-> NoOp]
    /\ res = [c \in Tasks |-> NoRes]
    /\ resp = [c \in Tasks |-> NoResp]
    /\ held = [c \in Tasks |-> NoReader]
    /\ used = [c \in Tasks |-> NoReader]
    /\ file = BaseFile
    /\ arg = 0
    /\ out = NoOut
    /\ stage = "server"

\* open_file is invoked: the closure is handed to spawn_blocking.  The path is
\* first read by the closure, and is drawn there (OpenJoin).
OpenFile(c) ==
    /\ pc[c] = "idle"
    /\ op' = [op EXCEPT ![c] = [kind |-> "open", path |-> "", frame |-> 0]]
    /\ poolQ' = Append(poolQ, c)
    /\ pc' = [pc EXCEPT ![c] = "o_spawned"]
    /\ UNCHANGED <<slot, holder, lockQ, busy, res, resp, held, used>>
    /\ UNCHANGED unitVars

\* a blocking thread takes the open closure
OpenStart(c) ==
    /\ pc[c] = "o_spawned"
    /\ poolQ # <<>> /\ Head(poolQ) = c
    /\ Cardinality(busy) < PoolSize
    /\ poolQ' = Tail(poolQ)
    /\ busy' = busy \cup {c}
    /\ pc' = [pc EXCEPT ![c] = "o_running"]
    /\ UNCHANGED <<slot, holder, lockQ, op, res, resp, held, used>>
    /\ UNCHANGED unitVars

OpenJoin_installs_before_validating(c, path) ==
    /\ pc[c] = "o_running"
    /\ busy' = busy \ {c}
    /\ op' = [op EXCEPT ![c].path = path]
    /\ res' = [res EXCEPT ![c] = OpenResults[path]]
    /\ slot' = path
    /\ pc' = [pc EXCEPT ![c] = "o_joined"]
    /\ UNCHANGED <<holder, lockQ, poolQ, resp, held, used>>
    /\ UNCHANGED unitVars

\* the closure has opened the file at path and counted its frames, and returns
\* (commands.rs:27-31): the blocking thread is free
OpenJoin(c, path) ==
    /\ pc[c] = "o_running"
    /\ busy' = busy \ {c}
    /\ op' = [op EXCEPT ![c].path = path]
    /\ res' = [res EXCEPT ![c] = OpenResults[path]]
    /\ pc' = [pc EXCEPT ![c] = "o_joined"]
    /\ UNCHANGED <<slot, holder, lockQ, poolQ, resp, held, used>>
    /\ UNCHANGED unitVars

\* open_file resumes (commands.rs:32-37): an Err is returned to the caller, an
\* Ok goes on to state.reader.lock()
OpenLock(c) ==
    /\ pc[c] = "o_joined"
    /\ IF res[c].tag = "ok"
       THEN /\ lockQ' = Append(lockQ, c)
            /\ pc' = [pc EXCEPT ![c] = "o_lockwait"]
            /\ resp' = resp
       ELSE /\ lockQ' = lockQ
            /\ pc' = [pc EXCEPT ![c] = "done"]
            /\ resp' = [resp EXCEPT ![c] = OpenErr(res[c].err)]
    /\ UNCHANGED <<slot, holder, poolQ, busy, op, res, held, used>>
    /\ UNCHANGED unitVars

Remove(q, c) == SelectSeq(q, LAMBDA x : x # c)

OpenInstall_without_lock(c) ==
    /\ pc[c] = "o_lockwait"
    /\ lockQ' = Remove(lockQ, c)
    /\ slot' = res[c].v.reader
    /\ resp' = [resp EXCEPT ![c] = OpenOk(res[c].v.frame_count)]
    /\ pc' = [pc EXCEPT ![c] = "done"]
    /\ UNCHANGED <<holder, poolQ, busy, op, res, held, used>>
    /\ UNCHANGED unitVars

\* the lock is granted, the slot assigned and the guard dropped (commands.rs:37)
OpenInstall(c) ==
    /\ pc[c] = "o_lockwait"
    /\ holder = NoTask
    /\ lockQ # <<>> /\ Head(lockQ) = c
    /\ lockQ' = Tail(lockQ)
    /\ slot' = res[c].v.reader
    /\ resp' = [resp EXCEPT ![c] = OpenOk(res[c].v.frame_count)]
    /\ pc' = [pc EXCEPT ![c] = "done"]
    /\ UNCHANGED <<holder, poolQ, busy, op, res, held, used>>
    /\ UNCHANGED unitVars

\* a GET /metadata or GET /image/{frame} arrives: its closure is handed to
\* spawn_blocking.  The two handlers differ from RequestDecode on, where the
\* route and the frame index are drawn.
Request(c) ==
    /\ pc[c] = "idle"
    /\ op' = [op EXCEPT ![c] = [kind |-> "request", path |-> "", frame |-> 0]]
    /\ poolQ' = Append(poolQ, c)
    /\ pc' = [pc EXCEPT ![c] = "r_spawned"]
    /\ UNCHANGED <<slot, holder, lockQ, busy, res, resp, held, used>>
    /\ UNCHANGED unitVars

\* a blocking thread takes the closure, which calls blocking_lock()
RequestStart(c) ==
    /\ pc[c] = "r_spawned"
    /\ poolQ # <<>> /\ Head(poolQ) = c
    /\ Cardinality(busy) < PoolSize
    /\ poolQ' = Tail(poolQ)
    /\ busy' = busy \cup {c}
    /\ lockQ' = Append(lockQ, c)
    /\ pc' = [pc EXCEPT ![c] = "r_lockwait"]
    /\ UNCHANGED <<slot, holder, op, res, resp, held, used>>
    /\ UNCHANGED unitVars

\* blocking_lock() returns the guard
RequestAcquire(c) ==
    /\ pc[c] = "r_lockwait"
    /\ holder = NoTask
    /\ lockQ # <<>> /\ Head(lockQ) = c
    /\ lockQ' = Tail(lockQ)
    /\ holder' = c
    /\ held' = [held EXCEPT ![c] = slot]
    /\ pc' = [pc EXCEPT ![c] = "r_locked"]
    /\ UNCHANGED <<slot, poolQ, busy, op, res, resp, used>>
    /\ UNCHANGED unitVars

\* guard.as_ref() and the reader's metadata() or read_frame(), through the guard
RequestDecode(c, kind, frame) ==
    /\ pc[c] = "r_locked"
    /\ op' = [op EXCEPT ![c] = [kind |-> kind, path |-> "", frame |-> frame]]
    /\ used' = [used EXCEPT ![c] = slot]
    /\ res' = [res EXCEPT ![c] = request_closure(op'[c], slot)]
    /\ pc' = [pc EXCEPT ![c] = "r_decoded"]
    /\ UNCHANGED <<slot, holder, lockQ, poolQ, busy, resp, held>>
    /\ UNCHANGED unitVars

\* get_metadata's closure
GetMetadata(c) == RequestDecode(c, "meta", 0)

\* get_image's closure
GetImage(c, frame) == RequestDecode(c, "frame", frame)

http_response(o, result) ==
    IF o.kind = "meta" THEN metadata_response(result) ELSE image_response(result)

RequestReturn_keeps_lock_on_failure(c) ==
    /\ pc[c] = "r_decoded"
    /\ holder' = IF res[c].tag = "ok" THEN NoTask ELSE holder
    /\ busy' = busy \ {c}
    /\ resp' = [resp EXCEPT ![c] = http_response(op[c], res[c])]
    /\ pc' = [pc EXCEPT ![c] = "done"]
    /\ UNCHANGED <<slot, lockQ, poolQ, op, res, held, used>>
    /\ UNCHANGED unitVars

\* the closure ends, by return or by unwinding: the guard is dropped and the
\* blocking thread is free; the handler resumes and answers by its match
RequestReturn(c) ==
    /\ pc[c] = "r_decoded"
    /\ holder' = NoTask
    /\ busy' = busy \ {c}
    /\ resp' = [resp EXCEPT ![c] = http_response(op[c], res[c])]
    /\ pc' = [pc EXCEPT ![c] = "done"]
    /\ UNCHANGED <<slot, lockQ, poolQ, op, res, held, used>>
    /\ UNCHANGED unitVars

\* the caller has its answer; the task is free for the next call
Finish(c) ==
    /\ pc[c] = "done"
    /\ pc' = [pc EXCEPT ![c] = "idle"]
    /\ op' = [op EXCEPT ![c] = NoOp]
    /\ res' = [res EXCEPT ![c] = NoRes]
    /\ resp' = [resp EXCEPT ![c] = NoResp]
    /\ held' = [held EXCEPT ![c] = NoReader]
    /\ used' = [used EXCEPT ![c] = NoReader]
    /\ UNCHANGED <<slot, holder, lockQ, poolQ, busy>>
    /\ UNCHANGED unitVars

Progress(c) ==
    \/ OpenStart(c)
    \/ \E path \in Paths : OpenJoin(c, path)
    \/ OpenLock(c)
    \/ OpenInstall(c)
    \/ RequestStart(c)
    \/ RequestAcquire(c)
    \/ GetMetadata(c)
    \/ \E frame \in FrameArgs : GetImage(c, frame)
    \/ RequestReturn(c)

Next ==
    \E c \in Tasks :
        \/ OpenFile(c)
        \/ Request(c)
        \/ Progress(c)
        \/ Finish(c)

Spec == Init /\ [][Next]_vars

\* every step of a call that has begun is eventually taken: the runtime polls
\* every ready task and every blocking thread runs
FairSpec == Spec /\ \A c \in Tasks : WF_pc(Progress(c))

(***************************************************************************)
(* Claims about the server (Spec, FairSpec).                               *)
(***************************************************************************)
IsRequest(c) == op[c].kind \in {"meta", "frame"}

\* C1: a metadata or frame request handled while the slot is empty is answered
\* 404 "No file open", and the slot is still empty when it has been handled.
C1_NoFileOpenIs404 ==
    \A c \in Tasks :
        /\ (pc[c] = "done" /\ IsRequest(c) /\ used[c] = NoReader)
                => resp[c] = TextResponse(404, "No file open")
        /\ (pc[c] = "r_decoded" /\ used[c] = NoReader) => slot = NoReader

\* C2: a request is served by one reader, the one installed most recently when
\* it acquired the lock: the slot does not change while the request holds the
\* lock, and the result is that reader's answer.
C2_OneReaderPerRequest ==
    \A c \in Tasks :
        /\ holder = c => slot = held[c]
        /\ (IsRequest(c) /\ pc[c] \in {"r_decoded", "done"})
                => /\ used[c] = held[c]
                   /\ res[c] = request_closure(op[c], held[c])

C2_Witness ==
    \E c, d \in Tasks :
        /\ pc[c] = "r_locked" /\ holder = c
        /\ pc[d] = "o_lockwait"
        /\ slot = "scan.nxs" /\ held[c] = "scan.nxs"
        /\ res[d].v.reader = "bare.H5"

\* C3: the slot changes only in the step in which an open-file call succeeds,
\* and then to that call's reader; failing calls and requests leave it as it was.
C3_SlotChangesOnlyOnSuccessfulOpen ==
    [][ slot' # slot =>
            \E c \in Tasks :
                /\ op[c].kind = "open"
                /\ pc[c] = "o_lockwait" /\ pc'[c] = "done"
                /\ res[c].tag = "ok"
                /\ resp'[c] = OpenOk(res[c].v.frame_count)
                /\ slot' = op[c].path ]_vars

C3_Witness ==
    \E c \in Tasks :
        /\ pc[c] = "done"
        /\ op[c] = [kind |-> "open", path |-> "flat.nx5", frame |-> 0]
        /\ resp[c] = OpenErr("rank")
        /\ slot = "scan.nxs"

\* C9: under fair scheduling every call that has begun gets its response.
C9_EveryCallReturns ==
    \A c \in Tasks : (pc[c] # "idle") ~> (pc[c] = "done")

C9_Witness ==
    \E c, d \in Tasks :
        /\ pc[c] = "o_lockwait"
        /\ pc[d] = "r_decoded" /\ holder = d
        /\ res[d].tag = "err"

====
